---- MODULE Spec2Model ----
(***************************************************************************)
(* A model of rxooks (src/src/index.ts): the three hooks useSubscription,  *)
(* useAsyncValues and useObservableState.                                  *)
(*                                                                         *)
(* The hooks run inside React and on top of RxJS.  Both are libraries the  *)
(* hooks call; what the model states about them is the documented          *)
(* behaviour of the calls index.ts makes:                                  *)
(*   useEffect(f, deps)  f runs after the commit of the first render and   *)
(*                       of every render whose deps differ from those of   *)
(*                       the previous render (always, when deps is         *)
(*                       omitted); the teardown f returned runs before the *)
(*                       next run of f and on unmount;                     *)
(*   useState(init)      init is used by the first render of an instance   *)
(*                       only; the setter replaces the value;              *)
(*   useRef()            one cell per instance, kept across renders;       *)
(*   from(x).subscribe   a promise delivers its value unless the           *)
(*                       subscriber is closed; an async iterable delivers  *)
(*                       each element and is returned from once the        *)
(*                       subscriber is closed; an observable delivers      *)
(*                       until the subscriber is closed.                   *)
(***************************************************************************)
EXTENDS Integers, Sequences, FiniteSets, TLC

\* Bounds of the model.
MaxRenders == 4     \* renders (mounts included) of the useSubscription component
MaxAsyncRenders == 3 \* renders (mounts included) of the useAsyncValues component
MaxEmit == 2        \* values one asynchronous source produces
MaxOps == 6         \* calls made on one useObservableState cell
MaxSubs == 2        \* subscriptions to the cell's observable
MaxVal == 2         \* numbers 0..MaxVal are the cell's numeric values
MaxReentrantOps == 4 \* calls made on a cell whose subscribers call back

VARIABLES
    \* --- the component instance and its useEffect hook (index.ts:19-27)
    depsKind,       \* the deps the component passes: "pair", "single", "empty", "omitted"
    mounted,        \* the component is in the tree
    inst,           \* number of the instance (mounts so far)
    deps,           \* deps of the last render (the hook's memoized deps)
    effectPending,  \* the last render scheduled the effect; it has not run yet
    subscription,   \* id of the `subscription` the effect closure holds, 0: none
    renders,        \* renders so far
    log,            \* history: setup / unsubscribe calls and state writes
    depChanges,     \* renders of this instance whose deps differed (SpecSub)
    \* --- useAsyncValues (index.ts:67-75)
    value,          \* the useState cell
    firstInit,      \* config.initialValue of the instance's first render
    observed,       \* what observed() returns: "promise", "asyncgen", "observable"
    src,            \* the sources observed() returned, by subscription id
    \* --- useObservableState (index.ts:87-125)
    stateRef,       \* stateRef.current is set: the cell exists
    currentValue,   \* the closure variable currentValue
    subscribers,    \* the Set `subscribers`, in insertion order
    recv,           \* what each subscriber was notified of, oldest first
    promises,       \* the promises functional setters returned
    cellRenders,    \* renders of the component that owns the cell
    calls,          \* calls made on the cell so far
    lastCall,       \* the last call made on the cell
    observers,      \* what each subscriber's next callback does (SpecReentrant)
    released        \* history: <<s, n>>, unsubscribe was called on subscription
                    \* s, which had received n values by then

subVars == <<depsKind, mounted, inst, deps, effectPending, subscription,
             renders, log>>
asyncVars == <<value, firstInit, observed, src>>
cellVars == <<stateRef, currentValue, subscribers, recv, promises, cellRenders,
              calls, lastCall, observers, released>>
vars == <<subVars, depChanges, asyncVars, cellVars>>

(***************************************************************************)
(* Dependency lists.                                                       *)
(***************************************************************************)
DepKinds == {"pair", "empty", "omitted"}       \* part_000:27, :86, and none
AsyncDepKinds == {"single"}                    \* part_000:135

\* `deps` left out of the call: useEffect(f, undefined).
Omitted == <<-1>>

DepLists(kind) ==
    CASE kind = "pair" -> [1..2 -> 0..1]
      [] kind = "single" -> [1..1 -> 0..1]
      [] kind = "empty" -> {<<>>}
      [] kind = "omitted" -> {Omitted}

Min(a, b) == IF a < b THEN a ELSE b

\* React compares the lists position by position with Object.is.
areHookInputsEqualFirstOnly(nextDeps, prevDeps) ==
    \A i \in 1..Min(1, Min(Len(nextDeps), Len(prevDeps))) : nextDeps[i] = prevDeps[i]

areHookInputsEqualByReference(nextDeps, prevDeps) == FALSE

areHookInputsEqual(nextDeps, prevDeps) ==
    \A i \in 1..Min(Len(nextDeps), Len(prevDeps)) : nextDeps[i] = prevDeps[i]

\* useEffect on a re-render: the effect runs again unless deps is given and
\* equal to the deps of the previous render.
EffectScheduledAlways(nextDeps, prevDeps) == TRUE

EffectScheduledOmittedAsEmpty(nextDeps, prevDeps) ==
    IF nextDeps = Omitted THEN FALSE
    ELSE ~areHookInputsEqual(nextDeps, prevDeps)

EffectScheduled(nextDeps, prevDeps) ==
    IF nextDeps = Omitted THEN TRUE
    ELSE ~areHookInputsEqual(nextDeps, prevDeps)

(***************************************************************************)
(* The history.                                                            *)
(***************************************************************************)
Setup(id, d) == [op |-> "setup", id |-> id, k |-> 0, deps |-> d, inst |-> inst]
Unsub(id) == [op |-> "unsub", id |-> id, k |-> 0, deps |-> <<>>, inst |-> inst]
Write(id, k) == [op |-> "write", id |-> id, k |-> k, deps |-> <<>>, inst |-> inst]

Idx(op) == {i \in 1..Len(log) : log[i].op = op}
SetupCount == Cardinality(Idx("setup"))
UnsubCount == Cardinality(Idx("unsub"))
NextId == SetupCount + 1

\* The teardown useSubscription returns: () => subscription.unsubscribe().
TeardownOmitted(L, id) == L

Teardown(L, id) == IF id = 0 THEN L ELSE Append(L, Unsub(id))

\* The effect of useSubscription: const subscription = subscribe().
RunEffect(L, id, d) == Append(L, Setup(id, d))

(***************************************************************************)
(* The component that calls useSubscription(subscribe, deps), as React     *)
(* drives it: render, then the commit runs the scheduled effect.  React    *)
(* runs a scheduled effect before it renders or unmounts the component     *)
(* again.                                                                  *)
(***************************************************************************)
\* First render of a new instance: the effect is always scheduled.
MountCore(d, max) ==
    /\ ~mounted
    /\ renders < max
    /\ d \in DepLists(depsKind)
    /\ mounted' = TRUE
    /\ inst' = inst + 1
    /\ deps' = d
    /\ effectPending' = TRUE
    /\ subscription' = 0
    /\ renders' = renders + 1
    /\ UNCHANGED <<depsKind, log>>

\* A later render of the instance, with dependency list d.
RenderCore(d, max) ==
    /\ mounted
    /\ ~effectPending
    /\ renders < max
    /\ d \in DepLists(depsKind)
    /\ deps' = d
    /\ effectPending' = EffectScheduled(d, deps)
    /\ renders' = renders + 1
    /\ UNCHANGED <<depsKind, mounted, inst, subscription, log>>

\* The commit runs the scheduled effect: the teardown of the previous run,
\* then subscribe().
FlushCore ==
    /\ mounted
    /\ effectPending
    /\ log' = RunEffect(Teardown(log, subscription), NextId, deps)
    /\ subscription' = NextId
    /\ effectPending' = FALSE
    /\ UNCHANGED <<depsKind, mounted, inst, deps, renders>>

\* The instance leaves the tree: the teardown of the last run.
UnmountCore ==
    /\ mounted
    /\ ~effectPending
    /\ log' = Teardown(log, subscription)
    /\ mounted' = FALSE
    /\ subscription' = 0
    /\ UNCHANGED <<depsKind, inst, deps, effectPending, renders>>

(***************************************************************************)
(* Values of the useState cell of useAsyncValues.  A value names where it  *)
(* came from: the k-th value of source id, or (id 0) the configuration.    *)
(***************************************************************************)
Val(id, k) == [src |-> id, k |-> k]
Undefined == Val(0, 0)          \* no initialValue configured
Configured == Val(0, 1)         \* config.initialValue
InitVals == {Undefined, Configured}

Ids == 1..MaxAsyncRenders
SourceKinds == {"promise", "asyncgen", "observable"}

\* A source, as from(observed()).subscribe(setValue) left it:
\*   emitted  the values it produced while the subscriber was open,
\*   closed   the subscriber is closed (unsubscribed or completed),
\*   done     the source has ended: it produces nothing more,
\*   late     it produced a value after the subscriber was closed.
NoSource == [emitted |-> 0, closed |-> TRUE, done |-> TRUE, late |-> FALSE]
NewSource == [emitted |-> 0, closed |-> FALSE, done |-> FALSE, late |-> FALSE]

\* useState(config?.initialValue): the argument counts on the first render.
useStateEveryRender(stored, init, firstRender) == init

useState(stored, init, firstRender) == IF firstRender THEN init ELSE stored

\* Subscription.unsubscribe(): the subscriber is closed.
Unsubscribe(S, id) == IF id = 0 THEN S ELSE [S EXCEPT ![id].closed = TRUE]

\* The source produced a value: counted while the subscriber is open, noted
\* as late once it is closed.
Produced(r) ==
    IF r.closed THEN [r EXCEPT !.late = TRUE] ELSE [r EXCEPT !.emitted = @ + 1]

\* Subscriber.next(v) with setValue as the observer: setValue(v) unless the
\* subscriber is closed.  The useState cell and the history after the call.
nextSkipsClosedCheck(r, id, k) ==
    [value |-> Val(id, k), log |-> Append(log, Write(id, k))]

nextOnlyFirst(r, id, k) ==
    IF r.closed \/ k > 1 THEN [value |-> value, log |-> log]
    ELSE [value |-> Val(id, k), log |-> Append(log, Write(id, k))]

next(r, id, k) ==
    IF r.closed THEN [value |-> value, log |-> log]
    ELSE [value |-> Val(id, k), log |-> Append(log, Write(id, k))]

(***************************************************************************)
(* useObservableState (index.ts:87-133): the cell kept in stateRef.        *)
(* JavaScript values are records: t is the kind of value, n the number or  *)
(* the promise it stands for.                                              *)
(***************************************************************************)
Num(n) == [t |-> "number", n |-> n]
Null == [t |-> "null", n |-> 0]
Undef == [t |-> "undefined", n |-> 0]
PromiseOf(p) == [t |-> "promise", n |-> p]

Numbers == {Num(n) : n \in 0..MaxVal}

\* The setter callbacks (prev) => ... the component passes: what the body
\* computes from prev, and whether it returns that or a promise of it.
Callbacks ==
    [t : {"function"}, n : {0}, body : {"inc", "null", "undefined"}, async : BOOLEAN]

\* The JavaScript typeof operator.
typeOf(v) ==
    CASE v.t = "null" -> "object"
      [] v.t = "promise" -> "object"
      [] OTHER -> v.t

\* index.ts:131-133
isFunction(v) == typeOf(v) = "function"

\* index.ts:127-129: typeof value === 'object' && isFunction(value.then).
\* Reading a property of null throws a TypeError.
isPromiseLike(v) ==
    IF typeOf(v) # "object" THEN "false"
    ELSE IF v.t = "null" THEN "TypeError"
    ELSE IF v.t = "promise" THEN "true"
    ELSE "false"

\* What the body of callback cb computes from prev.
Body(cb, prev) ==
    CASE cb.body = "inc" -> Num(prev.n + 1)
      [] cb.body = "null" -> Null
      [] cb.body = "undefined" -> Undef

\* The callback can be called with prev: n => n + 1 is given a number.
Applicable(cb, prev) ==
    cb.body = "inc" => (prev.t = "number" /\ prev.n < MaxVal)

PromiseIds == 1..MaxOps
NoPromise == [state |-> "none", val |-> Undef]
NewPromiseId == 1 + Cardinality({q \in PromiseIds : promises[q].state # "none"})
Pending == {q \in PromiseIds : promises[q].state = "pending"}

\* value(currentValue): the result of the callback, a promise when it is async.
Call(cb, prev) == IF cb.async THEN PromiseOf(NewPromiseId) ELSE Body(cb, prev)

\* The subscriptions made so far, and those in the Set `subscribers`.
Subscriptions == DOMAIN recv
Active == {subscribers[i] : i \in DOMAIN subscribers}

\* index.ts:107-109: for (const subscriber of subscribers) subscriber.next(value).
RECURSIVE NotifyAllButFirst(_, _, _)
NotifyAllButFirst(R, subs, v) ==
    IF Len(subs) <= 1 THEN R
    ELSE NotifyAllButFirst([R EXCEPT ![subs[2]] = Append(@, v)],
                           <<subs[1]>> \o SubSeq(subs, 3, Len(subs)), v)

RECURSIVE Notify(_, _, _)
Notify(R, subs, v) ==
    IF subs = <<>> THEN R
    ELSE Notify([R EXCEPT ![Head(subs)] = Append(@, v)], Tail(subs), v)

\* index.ts:106-109: the else branch of setValue, a value that is no function.
AssignKeepsValue(v) ==
    /\ currentValue' = currentValue
    /\ recv' = Notify(recv, subscribers, v)
    /\ UNCHANGED subscribers

Assign(v) ==
    /\ currentValue' = v
    /\ recv' = Notify(recv, subscribers, v)
    /\ UNCHANGED subscribers

\* index.ts:100-101: result.then(setValue) on a promise-like result.  P is
\* the promises made before; the cell waits for the new one.
AwaitDropsEarlier(cb, P) ==
    /\ promises' = [q \in PromiseIds |->
                       IF q = NewPromiseId
                       THEN [state |-> "pending", val |-> Body(cb, currentValue)]
                       ELSE IF P[q].state = "pending"
                       THEN [P[q] EXCEPT !.state = "rejected"]
                       ELSE P[q]]
    /\ UNCHANGED <<currentValue, recv, subscribers>>

AwaitAppliesAtOnce(cb, P) ==
    /\ promises' = [P EXCEPT ![NewPromiseId] =
                       [state |-> "resolved", val |-> Body(cb, currentValue)]]
    /\ currentValue' = Body(cb, currentValue)
    /\ recv' = Notify(recv, subscribers, Body(cb, currentValue))
    /\ UNCHANGED subscribers

Await(cb, P) ==
    /\ promises' = [P EXCEPT ![NewPromiseId] =
                       [state |-> "pending", val |-> Body(cb, currentValue)]]
    /\ UNCHANGED <<currentValue, recv, subscribers>>

\* index.ts:97-111: setValue.  out is how the call ended: "applied" (value
\* stored and broadcast), "pending" (waiting for a promise) or "TypeError"
\* (isPromiseLike threw).  P is the promises as the caller leaves them.
setValue(arg, out, P) ==
    IF isFunction(arg)
    THEN LET result == Call(arg, currentValue) IN
         CASE isPromiseLike(result) = "TypeError" ->
                 /\ out = "TypeError"
                 /\ promises' = P
                 /\ UNCHANGED <<currentValue, recv, subscribers>>
           [] isPromiseLike(result) = "true" ->
                 /\ out = "pending"
                 /\ Await(arg, P)
           [] isPromiseLike(result) = "false" ->
                 /\ out = "applied"
                 /\ promises' = P
                 /\ Assign(result)
    ELSE /\ out = "applied"
         /\ promises' = P
         /\ Assign(arg)

\* index.ts:115-119: the subscribe function of the observable.  The new
\* subscriber is sent currentValue, then added to the Set.
SubscriberInitNoReplay(v) == <<>>

SubscriberInit(v) == <<v>>

\* The cell before the first render of its component.
CellIdle ==
    /\ stateRef = FALSE
    /\ currentValue = Undef
    /\ subscribers = <<>>
    /\ recv = <<>>
    /\ promises = [q \in PromiseIds |-> NoPromise]
    /\ cellRenders = 0
    /\ observers = <<>>
    /\ released = {}
    /\ calls = 0
    /\ lastCall = [name |-> "none", v |-> Undef, p |-> 0, out |-> "none",
                   seq |-> TRUE]

(***************************************************************************)
(* Specification SpecSub: a component that calls useSubscription with a    *)
(* subscribe function that only counts (src/unnamed/part_000:13-124).      *)
(***************************************************************************)
SubInit(kinds) ==
    /\ depsKind \in kinds
    /\ mounted = FALSE
    /\ inst = 0
    /\ deps = <<>>
    /\ effectPending = FALSE
    /\ subscription = 0
    /\ renders = 0
    /\ depChanges = 0
    /\ log = <<>>

AsyncIdle(kinds) ==
    /\ observed \in kinds
    /\ value = Undefined
    /\ firstInit = Undefined
    /\ src = [i \in Ids |-> NoSource]

InitSub == SubInit(DepKinds) /\ AsyncIdle({"none"}) /\ CellIdle

Mount ==
    \E d \in DepLists(depsKind) :
        /\ MountCore(d, MaxRenders)
        /\ depChanges' = 0
        /\ UNCHANGED <<asyncVars, cellVars>>

Render ==
    \E d \in DepLists(depsKind) :
        /\ RenderCore(d, MaxRenders)
        /\ depChanges' = IF d # deps THEN depChanges + 1 ELSE depChanges
        /\ UNCHANGED <<asyncVars, cellVars>>

FlushEffect == FlushCore /\ UNCHANGED <<depChanges, asyncVars, cellVars>>

Unmount == UnmountCore /\ UNCHANGED <<depChanges, asyncVars, cellVars>>

NextSub == Mount \/ Render \/ FlushEffect \/ Unmount

SpecSub == InitSub /\ [][NextSub]_vars

(***************************************************************************)
(* Specification Spec: one instance of a component that calls              *)
(* useAsyncValues(observed, deps, config), from its mount to its unmount.  *)
(***************************************************************************)
Init == SubInit(AsyncDepKinds) /\ AsyncIdle(SourceKinds) /\ CellIdle

\* First render: useState takes config.initialValue; the hook returns `value`.
AsyncMount ==
    \E d \in DepLists(depsKind), iv \in InitVals :
        /\ inst = 0
        /\ MountCore(d, MaxAsyncRenders)
        /\ UNCHANGED <<depChanges, cellVars>>
        /\ value' = useState(value, iv, TRUE)
        /\ firstInit' = iv
        /\ UNCHANGED <<observed, src>>

\* A later render: the hook returns `value`, the useState cell.
AsyncRender ==
    \E d \in DepLists(depsKind), iv \in InitVals :
        /\ RenderCore(d, MaxAsyncRenders)
        /\ UNCHANGED <<depChanges, cellVars>>
        /\ value' = useState(value, iv, FALSE)
        /\ UNCHANGED <<firstInit, observed, src>>

AsyncFlushResets ==
    /\ FlushCore
    /\ UNCHANGED <<depChanges, cellVars>>
    /\ src' = [Unsubscribe(src, subscription) EXCEPT ![NextId] = NewSource]
    /\ value' = firstInit
    /\ UNCHANGED <<firstInit, observed>>

\* The effect: unsubscribe from the previous source, then
\* from(observed()).subscribe(setValue).
AsyncFlush ==
    /\ FlushCore
    /\ UNCHANGED <<depChanges, cellVars>>
    /\ src' = [Unsubscribe(src, subscription) EXCEPT ![NextId] = NewSource]
    /\ UNCHANGED <<value, firstInit, observed>>

AsyncUnmount ==
    /\ UnmountCore
    /\ UNCHANGED <<depChanges, cellVars>>
    /\ src' = Unsubscribe(src, subscription)
    /\ UNCHANGED <<value, firstInit, observed>>

\* A promise settles.  from(promise): value => { if (!subscriber.closed) {
\* subscriber.next(value); subscriber.complete(); } }.
Resolve(s) ==
    /\ observed = "promise"
    /\ ~src[s].done
    /\ value' = next(src[s], s, 1).value
    /\ log' = next(src[s], s, 1).log
    /\ src' = [src EXCEPT ![s] = [Produced(@) EXCEPT !.closed = TRUE, !.done = TRUE]]
    /\ UNCHANGED <<depsKind, mounted, inst, deps, effectPending, subscription,
                   renders, depChanges, firstInit, observed, cellVars>>

\* An async generator yields.  from(asyncIterable): for await (const value
\* of asyncIterable) { subscriber.next(value); if (subscriber.closed) return; }
Yield(s) ==
    /\ observed = "asyncgen"
    /\ ~src[s].done
    /\ src[s].emitted < MaxEmit
    /\ value' = next(src[s], s, src[s].emitted + 1).value
    /\ log' = next(src[s], s, src[s].emitted + 1).log
    /\ src' = [src EXCEPT ![s] = [Produced(@) EXCEPT !.done = src[s].closed]]
    /\ UNCHANGED <<depsKind, mounted, inst, deps, effectPending, subscription,
                   renders, depChanges, firstInit, observed, cellVars>>

\* An observable (a Subject, an interval) pushes a value to its observers.
Push(s) ==
    /\ observed = "observable"
    /\ ~src[s].done
    /\ src[s].emitted < MaxEmit
    /\ value' = next(src[s], s, src[s].emitted + 1).value
    /\ log' = next(src[s], s, src[s].emitted + 1).log
    /\ src' = [src EXCEPT ![s] = Produced(@)]
    /\ UNCHANGED <<depsKind, mounted, inst, deps, effectPending, subscription,
                   renders, depChanges, firstInit, observed, cellVars>>

\* An async generator returns or an observable completes while subscribed:
\* subscriber.complete() closes the subscriber.
Complete(s) ==
    /\ observed \in {"asyncgen", "observable"}
    /\ ~src[s].done
    /\ ~src[s].closed
    /\ src' = [src EXCEPT ![s] = [@ EXCEPT !.closed = TRUE, !.done = TRUE]]
    /\ UNCHANGED <<subVars, depChanges, value, firstInit, observed, cellVars>>

Next ==
    \/ AsyncMount
    \/ AsyncRender
    \/ AsyncFlush
    \/ AsyncUnmount
    \/ \E s \in Ids : Resolve(s)
    \/ \E s \in Ids : Yield(s)
    \/ \E s \in Ids : Push(s)
    \/ \E s \in Ids : Complete(s)

Spec == Init /\ [][Next]_vars

(***************************************************************************)
(* Specification SpecCell: a component that calls useObservableState, and  *)
(* code that uses the observable, the setter and the getter it returns.    *)
(* The subscribers record what they are sent.                              *)
(***************************************************************************)
InitCell == SubInit({"empty"}) /\ AsyncIdle({"none"}) /\ CellIdle

\* The call is one of the scenario of part_000:254-287: the cell is made
\* with useObservableState(0), and then only subscribed to and set with
\* setValue((n) => n + 1).
CounterCall(name, v, out) ==
    \/ name = "subscribe"
    \/ name = "render" /\ (stateRef \/ v = Num(0))
    \/ name = "setFn" /\ out = "applied" /\ v.t = "number"

\* Bookkeeping of a call on the cell: lastCall.seq tells that all the calls
\* so far are calls of that scenario.
Called(name, v, p, out) ==
    /\ calls' = calls + 1
    /\ lastCall' = [name |-> name, v |-> v, p |-> p, out |-> out,
                    seq |-> lastCall.seq /\ CounterCall(name, v, out)]

CellRenderRecreates ==
    \E iv \in Numbers :
        /\ calls < MaxOps
        /\ cellRenders' = cellRenders + 1
        /\ stateRef' = TRUE
        /\ currentValue' = iv
        /\ subscribers' = <<>>
        /\ Called("render", iv, 0, "none")
        /\ UNCHANGED <<recv, promises>>
        /\ UNCHANGED <<subVars, depChanges, asyncVars, observers, released>>

\* index.ts:90-124: a render.  The cell is made when stateRef.current is
\* unset; later renders return the same cell.
CellRender ==
    \E iv \in Numbers :
        /\ calls < MaxOps
        /\ cellRenders' = cellRenders + 1
        /\ stateRef' = TRUE
        /\ currentValue' = IF stateRef THEN currentValue ELSE iv
        /\ Called("render", iv, 0, "none")
        /\ UNCHANGED <<subscribers, recv, promises>>
        /\ UNCHANGED <<subVars, depChanges, asyncVars, observers, released>>

\* observable.subscribe(observer).
Subscribe ==
    /\ stateRef
    /\ calls < MaxOps
    /\ Len(recv) < MaxSubs
    /\ recv' = Append(recv, SubscriberInit(currentValue))
    /\ subscribers' = Append(subscribers, Len(recv) + 1)
    /\ Called("subscribe", currentValue, 0, "none")
    /\ UNCHANGED <<stateRef, currentValue, promises, cellRenders>>
    /\ UNCHANGED <<subVars, depChanges, asyncVars, observers, released>>

\* unsubscribe() was called on subscription s, which had received n values:
\* the first call is the one that counts.
Unsubscribed(R, s, n) ==
    IF \E r \in R : r[1] = s THEN R ELSE R \cup {<<s, n>>}

ReleaseSplice(s) ==
    /\ stateRef
    /\ calls < MaxOps
    /\ s \in Subscriptions
    /\ subscribers' = IF s \in Active
                      THEN SelectSeq(subscribers, LAMBDA x : x # s)
                      ELSE SubSeq(subscribers, 1, Len(subscribers) - 1)
    /\ Called("release", Num(s), 0, IF s \in Active THEN "deleted" ELSE "absent")
    /\ released' = Unsubscribed(released, s, Len(recv[s]))
    /\ UNCHANGED <<stateRef, currentValue, recv, promises, cellRenders>>
    /\ UNCHANGED <<subVars, depChanges, asyncVars, observers>>

\* subscription.unsubscribe() on subscription s: subscribers.delete(subscriber),
\* which tells whether the subscriber was in the Set.
Release(s) ==
    /\ stateRef
    /\ calls < MaxOps
    /\ s \in Subscriptions
    /\ subscribers' = SelectSeq(subscribers, LAMBDA x : x # s)
    /\ Called("release", Num(s), 0, IF s \in Active THEN "deleted" ELSE "absent")
    /\ released' = Unsubscribed(released, s, Len(recv[s]))
    /\ UNCHANGED <<stateRef, currentValue, recv, promises, cellRenders>>
    /\ UNCHANGED <<subVars, depChanges, asyncVars, observers>>

SetDirectRerenders(v) ==
    /\ stateRef
    /\ calls < MaxOps
    /\ setValue(v, "applied", promises)
    /\ Called("set", v, 0, "applied")
    /\ cellRenders' = cellRenders + 1
    /\ UNCHANGED stateRef
    /\ UNCHANGED <<subVars, depChanges, asyncVars, observers, released>>

\* setValue(v) with a value that is no function.
SetDirect(v) ==
    /\ stateRef
    /\ calls < MaxOps
    /\ setValue(v, "applied", promises)
    /\ Called("set", v, 0, "applied")
    /\ UNCHANGED <<stateRef, cellRenders>>
    /\ UNCHANGED <<subVars, depChanges, asyncVars, observers, released>>

\* setValue(cb) with a callback.
SetFn(cb) ==
    /\ stateRef
    /\ calls < MaxOps
    /\ Applicable(cb, currentValue)
    /\ \E out \in {"applied", "pending", "TypeError"} :
          /\ setValue(cb, out, promises)
          /\ Called("setFn", Body(cb, currentValue),
                    IF out = "pending" THEN NewPromiseId ELSE 0, out)
    /\ UNCHANGED <<stateRef, cellRenders>>
    /\ UNCHANGED <<subVars, depChanges, asyncVars, observers, released>>

ResolveReinvokes(q) ==
    /\ calls < MaxOps
    /\ promises[q].state = "pending"
    /\ LET again == IF promises[q].val.t = "number" /\ currentValue.t = "number"
                        /\ currentValue.n < MaxVal
                    THEN Num(currentValue.n + 1)
                    ELSE promises[q].val
       IN /\ setValue(again, "applied", [promises EXCEPT ![q].state = "resolved"])
          /\ Called("resolve", again, q, "applied")
    /\ UNCHANGED <<stateRef, cellRenders>>
    /\ UNCHANGED <<subVars, depChanges, asyncVars, observers, released>>

\* The promise q a callback returned resolves: then(setValue) calls setValue
\* with the value it resolves to.
ResolvePromise(q) ==
    /\ calls < MaxOps
    /\ promises[q].state = "pending"
    /\ setValue(promises[q].val, "applied", [promises EXCEPT ![q].state = "resolved"])
    /\ Called("resolve", promises[q].val, q, "applied")
    /\ UNCHANGED <<stateRef, cellRenders>>
    /\ UNCHANGED <<subVars, depChanges, asyncVars, observers, released>>

RejectFallsBack(q) ==
    /\ calls < MaxOps
    /\ promises[q].state = "pending"
    /\ setValue(Undef, "applied", [promises EXCEPT ![q].state = "rejected"])
    /\ Called("reject", promises[q].val, q, "none")
    /\ UNCHANGED <<stateRef, cellRenders>>
    /\ UNCHANGED <<subVars, depChanges, asyncVars, observers, released>>

\* The promise q rejects: then(setValue) has no rejection handler.
RejectPromise(q) ==
    /\ calls < MaxOps
    /\ promises[q].state = "pending"
    /\ promises' = [promises EXCEPT ![q].state = "rejected"]
    /\ Called("reject", promises[q].val, q, "none")
    /\ UNCHANGED <<stateRef, currentValue, subscribers, recv, cellRenders>>
    /\ UNCHANGED <<subVars, depChanges, asyncVars, observers, released>>

NextCell ==
    \/ CellRender
    \/ Subscribe
    \/ \E s \in 1..MaxSubs : Release(s)
    \/ \E v \in Numbers \cup {Null, Undef} : SetDirect(v)
    \/ \E cb \in Callbacks : SetFn(cb)
    \/ \E q \in PromiseIds : ResolvePromise(q)
    \/ \E q \in PromiseIds : RejectPromise(q)

SpecCell == InitCell /\ [][NextCell]_vars

(***************************************************************************)
(* SpecReentrant: useObservableState with subscribers whose next callback  *)
(* calls the setter.  setValue and the subscribe function run to their end *)
(* within one step, nested calls included (index.ts:97-119).               *)
(***************************************************************************)
\* A callback that only stores what it is sent, as the state setter that
\* useAsyncValues subscribes with (index.ts:73).
Recorder == [kind |-> "record", when |-> Undef, to |-> Undef, target |-> 0]

\* What a next callback does: record, or also, when it is sent `when`, call
\* setValue(to), or call unsubscribe() on subscription `target` (its own, or
\* another one).  to is above when, so that nested calls come to an end.
Observers ==
    {Recorder} \cup
    {o \in [kind : {"set"}, when : Numbers, to : Numbers, target : {0}] :
        o.to.n > o.when.n} \cup
    [kind : {"release"}, when : Numbers, to : {Undef}, target : 1..MaxSubs]

\* The subscriptions unsubscribe() was called on.
Closed(R) == {r[1] : r \in R}

\* index.ts:118: the teardown, subscribers.delete(subscriber).
SetDeleteOmitted(subs, t) == subs

SetDelete(subs, t) == SelectSeq(subs, LAMBDA x : x # t)

\* unsubscribe() on subscription t, called by the callback of subscriber s.
\* t has a subscriber when it is in the Set, or is s itself, being notified
\* (in the replay it is not in the Set yet); otherwise there is nothing to
\* call unsubscribe() on, or the call finds the subscription closed.
ReleaseNested(st, s, t) ==
    IF (t = s \/ \E i \in DOMAIN st.subs : st.subs[i] = t) /\ t \notin Closed(st.gone)
    THEN [st EXCEPT !.subs = SetDelete(@, t),
                    !.gone = Unsubscribed(@, t, Len(st.recv[t]))]
    ELSE st

\* index.ts:105-110 with callbacks that call back: setValue(v) on the cell
\* st = [cur, recv, subs, gone], an assignment and then the loop over the
\* Set, where subscriber.next(v) runs the callback of the subscriber, and
\* with it the calls that callback makes, before the loop goes on.
RECURSIVE setValueNested(_, _, _)
RECURSIVE BroadcastLoop(_, _, _, _)
\* subscriber.next(v) on subscriber s: nothing when s is closed.
Deliver(obs, st, s, v) ==
    LET got == [st EXCEPT !.recv[s] = Append(@, v)] IN
    IF s \in Closed(st.gone) THEN st
    ELSE IF obs[s].kind = "set" /\ obs[s].when = v
    THEN setValueNested(obs, got, obs[s].to)
    ELSE IF obs[s].kind = "release" /\ obs[s].when = v
    THEN ReleaseNested(got, s, obs[s].target)
    ELSE got

\* for (const subscriber of subscribers): the entries of the Set not visited
\* yet, in insertion order; an entry deleted before its turn is not visited.
BroadcastLoop(obs, st, v, visited) ==
    LET rest == SelectSeq(st.subs, LAMBDA x : x \notin visited) IN
    IF rest = <<>> THEN st
    ELSE BroadcastLoop(obs, Deliver(obs, st, Head(rest), v), v,
                       visited \cup {Head(rest)})

setValueNested(obs, st, v) == BroadcastLoop(obs, [st EXCEPT !.cur = v], v, {})

\* The cell as a record.
Cell == [cur |-> currentValue, recv |-> recv, subs |-> subscribers,
         gone |-> released]

InitReentrant == InitCell

\* observable.subscribe(observer) with callback b (index.ts:115-119):
\* subscriber.next(currentValue) runs the callback, then subscribers.add,
\* then the teardown is handed to the subscription, which runs it at once
\* when the callback closed the subscription during the replay.
ObserverSubscribe(b) ==
    /\ stateRef
    /\ calls < MaxReentrantOps
    /\ Len(recv) < MaxSubs
    /\ LET s == Len(recv) + 1
           obs == Append(observers, b)
           st == Deliver(obs, [Cell EXCEPT !.recv = Append(recv, <<>>)], s,
                         currentValue)
           added == Append(st.subs, s)
       IN /\ observers' = obs
          /\ currentValue' = st.cur
          /\ recv' = st.recv
          /\ released' = st.gone
          /\ subscribers' = IF s \in Closed(st.gone) THEN SetDelete(added, s)
                            ELSE added
    /\ Called("subscribe", currentValue, 0, "none")
    /\ UNCHANGED <<stateRef, promises, cellRenders>>
    /\ UNCHANGED <<subVars, depChanges, asyncVars>>

\* setValue(v) from outside any callback, with a value that is no function.
SetReentrant(v) ==
    /\ stateRef
    /\ calls < MaxReentrantOps
    /\ LET st == setValueNested(observers, Cell, v)
       IN /\ currentValue' = st.cur
          /\ recv' = st.recv
          /\ subscribers' = st.subs
          /\ released' = st.gone
    /\ Called("set", v, 0, "applied")
    /\ UNCHANGED <<stateRef, promises, cellRenders, observers>>
    /\ UNCHANGED <<subVars, depChanges, asyncVars>>

\* A render of the component, and unsubscribe() called from outside any
\* callback, as in SpecCell.
ReentrantRender == calls < MaxReentrantOps /\ CellRender

ReentrantRelease(s) == calls < MaxReentrantOps /\ Release(s)

NextReentrant ==
    \/ ReentrantRender
    \/ \E b \in Observers : ObserverSubscribe(b)
    \/ \E s \in 1..MaxSubs : ReentrantRelease(s)
    \/ \E v \in Numbers : SetReentrant(v)

SpecReentrant == InitReentrant /\ [][NextReentrant]_vars

(***************************************************************************)
(* Helpers of the properties.                                              *)
(***************************************************************************)
\* Positions of the history where op was called on subscription id.
At(op, id) == {i \in Idx(op) : log[i].id = id}

\* Setup calls and unsubscribe calls of the current instance.
InstSetups == Cardinality({i \in Idx("setup") : log[i].inst = inst})
InstUnsubs == Cardinality({i \in Idx("unsub") : log[i].inst = inst})

\* j is the setup call that follows setup call i in the same instance.
NextSetup(i, j) ==
    /\ i \in Idx("setup") /\ j \in Idx("setup")
    /\ i < j
    /\ log[i].inst = log[j].inst
    /\ \A m \in Idx("setup") : ~(i < m /\ m < j)

\* The effect has run for the deps of the last render.
Settled == mounted /\ ~effectPending

(***************************************************************************)
(* Properties of useSubscription, under SpecSub.                           *)
(***************************************************************************)
\* C1: when the dependency list changes from L1 to L2, unsubscribe is called
\* exactly once on the handle the setup for L1 returned, before the setup for
\* L2 is invoked; and the setup for L2 is invoked: once the effect has run,
\* the held handle is the one set up for the deps of the last render.
C1_TeardownOnceBeforeResetup ==
    /\ \A i, j \in 1..Len(log) :
         NextSetup(i, j) =>
            /\ Cardinality(At("unsub", log[i].id)) = 1
            /\ \A u \in At("unsub", log[i].id) : i < u /\ u < j
    /\ Settled =>
         /\ subscription # 0
         /\ At("unsub", subscription) = {}
         /\ \A i \in At("setup", subscription) : log[i].deps = deps

\* A change of the second dependency alone has torn down and set up again.
C1_Witness ==
    /\ depsKind = "pair"
    /\ \E i, j \in 1..Len(log) :
         /\ NextSetup(i, j)
         /\ log[i].deps[1] = log[j].deps[1]
         /\ log[i].deps[2] # log[j].deps[2]
         /\ At("unsub", log[i].id) # {}

\* C6: after N dependency-list changes, setup has been called N+1 times and
\* unsubscribe N times while the component is mounted, and N+1 times once it
\* is unmounted.
C6_SetupAndTeardownCounts ==
    depsKind \in {"pair", "empty"} =>
        /\ Settled => InstSetups = depChanges + 1 /\ InstUnsubs = depChanges
        /\ (~mounted /\ inst > 0) =>
              InstSetups = depChanges + 1 /\ InstUnsubs = depChanges + 1

\* Two dependency changes, then the unmount.
C6_Witness ==
    /\ depsKind = "pair"
    /\ ~mounted
    /\ depChanges = 2
    /\ InstUnsubs = 3

\* C7: with deps [], setup is called once per mount and unsubscribe once per
\* unmount: setups minus unsubscribes is 1 while mounted and 0 while
\* unmounted, and every handle of an unmounted component is released.
C7_OneSubscriptionPerMount ==
    depsKind = "empty" =>
        /\ Settled => SetupCount = inst /\ UnsubCount = inst - 1
        /\ ~mounted => SetupCount = inst /\ UnsubCount = inst
        /\ ~mounted => \A i \in Idx("setup") : At("unsub", log[i].id) # {}

\* Mounted, re-rendered, unmounted, and mounted and unmounted again.
C7_Witness ==
    /\ depsKind = "empty"
    /\ ~mounted
    /\ inst = 2
    /\ renders > 2

(***************************************************************************)
(* Properties of useAsyncValues, under Spec.                               *)
(***************************************************************************)
\* The values written to the useState cell, oldest first.
Writes == SelectSeq(log, LAMBDA e : e.op = "write")
WritesBy(id) == SelectSeq(log, LAMBDA e : e.op = "write" /\ e.id = id)

\* C2: once unsubscribe has been called on the subscription of a dependency
\* list (by a dependency change or by the unmount), no value of its source is
\* written to the useState cell.
C2_NoWriteAfterTeardown ==
    /\ \A u \in Idx("unsub"), w \in Idx("write") :
          log[w].id = log[u].id => w < u
    /\ \A s \in Ids : At("unsub", s) # {} => value # Val(s, src[s].emitted + 1)

\* The promise of the first dependency list settled after the change of the
\* dependency list, while the promise of the second is still pending.
C2_Witness ==
    /\ observed = "promise"
    /\ mounted
    /\ subscription = 2
    /\ src[1].late
    /\ ~src[2].done

\* C3 as amended: the hook returns (the useState cell holds) the initialValue
\* of the instance's first render until a source of the instance has
\* delivered a value, and from then on the value delivered last, whichever
\* source of the instance delivered it.
C3_InitialThenLastDelivered ==
    inst > 0 =>
        value = IF Writes = <<>> THEN firstInit
                ELSE Val(Writes[Len(Writes)].id, Writes[Len(Writes)].k)

\* A render after a dependency change, before the new source has emitted:
\* the hook returned the value of the previous source.
C3_Witness ==
    /\ Settled
    /\ subscription = 2
    /\ src[2].emitted = 0
    /\ renders = 3
    /\ firstInit = Configured
    /\ value = Val(1, 1)

\* C3 as stated: a render that happens before the current source has emitted
\* anything returns the configured initial value, and after an emission of
\* the current source the value it emitted last.
C3_AsStated ==
    [][renders' # renders =>
         value' = IF subscription = 0 \/ src[subscription].emitted = 0
                  THEN firstInit'
                  ELSE Val(subscription, src[subscription].emitted)]_vars

\* C8: the values one source produces while subscribed are written to the
\* useState cell one by one in the order produced, none skipped, repeated or
\* reordered, and the cell holds the last one written.
C8_WrittenInOrder ==
    /\ \A s \in Ids :
          /\ Len(WritesBy(s)) = src[s].emitted
          /\ \A n \in 1..Len(WritesBy(s)) : WritesBy(s)[n].k = n
    /\ Writes # <<>> =>
          value = Val(Writes[Len(Writes)].id, Writes[Len(Writes)].k)

\* An async generator, no initial value: its values 1..MaxEmit were written.
C8_Witness ==
    /\ observed = "asyncgen"
    /\ firstInit = Undefined
    /\ subscription = 1
    /\ src[1].emitted = MaxEmit
    /\ Len(Writes) = MaxEmit
    /\ value = Val(1, MaxEmit)

(***************************************************************************)
(* Properties of useObservableState, under SpecCell.                       *)
(***************************************************************************)
Last(q) == q[Len(q)]

\* The step is a call `name` on the cell.
IsCall(name) == calls' # calls /\ lastCall'.name = name

\* Every subscriber in the Set is sent v once; the others are sent nothing.
Broadcast(v) ==
    \A s \in DOMAIN recv :
        recv'[s] = IF s \in Active THEN Append(recv[s], v) ELSE recv[s]

\* C4: a new subscription is sent the value the cell holds at that moment as
\* its first notification, before subscribe returns, whether or not a set
\* call was ever made; what came first stays first.
C4_ReplayOnSubscribe ==
    [][/\ IsCall("subscribe") =>
            /\ Len(recv') = Len(recv) + 1
            /\ recv'[Len(recv')] = <<currentValue>>
            /\ Len(recv') \in {subscribers'[i] : i \in DOMAIN subscribers'}
       /\ \A s \in DOMAIN recv : recv[s] # <<>> => recv'[s][1] = recv[s][1]]_vars

\* One subscription was made before any set call, one after a set call that
\* changed the value: each was sent the value of its moment.
C4_Witness ==
    /\ Len(recv) = 2
    /\ lastCall.name = "subscribe"
    /\ recv[1][1] # recv[2][1]
    /\ recv[2] = <<currentValue>>

\* C5: a set call with a value v that is no function makes v the current
\* value when it returns, and sends v exactly once to every subscriber that
\* is subscribed at the time of the call.
C5_DirectSet ==
    [][IsCall("set") =>
          /\ currentValue' = lastCall'.v
          /\ Broadcast(lastCall'.v)
          /\ UNCHANGED <<subscribers, promises>>]_vars

\* A direct set with two subscribers and a value other than the previous one.
C5_Witness ==
    /\ lastCall.name = "set"
    /\ Len(subscribers) = 2
    /\ currentValue = lastCall.v
    /\ \A s \in Active :
          /\ Len(recv[s]) >= 2
          /\ Last(recv[s]) = lastCall.v
          /\ recv[s][Len(recv[s]) - 1] # lastCall.v

\* C9: a set call with a callback whose result is promise-like changes neither
\* the current value nor what any subscriber has received; when the promise
\* resolves, the value it resolves to becomes the current value and is sent
\* to every subscriber subscribed then.
C9_AsyncSetWaits ==
    [][/\ (IsCall("setFn") /\ lastCall'.out = "pending") =>
            /\ UNCHANGED <<currentValue, recv, subscribers>>
            /\ promises[lastCall'.p].state = "none"
            /\ promises'[lastCall'.p].state = "pending"
       /\ IsCall("resolve") =>
            /\ promises[lastCall'.p].state = "pending"
            /\ currentValue' = promises[lastCall'.p].val
            /\ Broadcast(promises[lastCall'.p].val)]_vars

\* A subscriber saw the initial value and then, at the resolution, the value
\* the promise resolved to: nothing in between.
C9_Witness ==
    /\ lastCall.name = "resolve"
    /\ Len(recv) >= 1
    /\ 1 \in Active
    /\ Len(recv[1]) = 2
    /\ recv[1][2] = promises[lastCall.p].val
    /\ recv[1][1] # recv[1][2]
    /\ currentValue = recv[1][2]

\* C10: functional set calls that are pending together do not affect one
\* another: a pending promise stays pending until it settles itself, it can
\* resolve whatever the others did, and the one that resolves last leaves
\* its value as the current value, sent to every subscriber.
C10_PendingSetsIndependent ==
    /\ [][\A q \in PromiseIds :
             (promises[q].state = "pending" /\ promises'[q].state # "pending") =>
                 /\ lastCall'.p = q
                 /\ lastCall'.name \in {"resolve", "reject"}
                 /\ promises'[q].val = promises[q].val]_vars
    /\ [](\A q \in Pending : calls < MaxOps => ENABLED ResolvePromise(q))
    /\ [](lastCall.name = "resolve" =>
             /\ currentValue = promises[lastCall.p].val
             /\ \A s \in Active : Last(recv[s]) = currentValue)

\* Two sets were pending together; the later one resolved first, the earlier
\* one last, and the cell holds the value of the earlier one.
C10_Witness ==
    /\ lastCall.name = "resolve"
    /\ lastCall.p = 1
    /\ promises[2].state = "resolved"
    /\ promises[1].val # promises[2].val
    /\ currentValue = promises[1].val
    /\ Active # {}

\* The numbers from, from + 1, ..., to as cell values.
Counting(from, to) == [i \in 1..(to - from + 1) |-> Num(from + i - 1)]

\* The functional set calls made so far, when every call was one of the
\* counter scenario.
IncCalls == calls - cellRenders - Len(recv)

\* C11: from initial value 0, k set calls (prev) => prev + 1 made one after
\* another leave the value k; each callback was given the value the previous
\* call produced; a subscriber has received the values from the one held
\* when it subscribed up to k, one by one: 0, 1, ..., k when it subscribed
\* before the first call.
C11_SequentialIncrements ==
    (stateRef /\ lastCall.seq) =>
        /\ currentValue = Num(IncCalls)
        /\ lastCall.name = "setFn" => lastCall.v = Num(IncCalls)
        /\ \A s \in DOMAIN recv :
              /\ s \in Active
              /\ recv[s] = Counting(recv[s][1].n, IncCalls)
              /\ recv[s][1] = Num(0) => recv[s] = Counting(0, IncCalls)

\* The subscriber of before the first call, after two calls.
C11_Witness ==
    /\ lastCall.seq
    /\ lastCall.name = "setFn"
    /\ Len(recv) >= 1
    /\ recv[1] = <<Num(0), Num(1), Num(2)>>
    /\ currentValue = Num(2)

\* The step is a call of the setter, or the settling of a promise a callback
\* of the setter returned.
IsSetStep == IsCall("set") \/ IsCall("setFn") \/ IsCall("resolve") \/ IsCall("reject")

\* C12: a call of the setter causes no render: with subscribers that only
\* record what they are sent, the render count and what the component
\* rendered from (the cell of the hook, the state of useAsyncValues) are the
\* same after the call, and after the promise of its callback settles.
C12_SetCausesNoRender ==
    [][IsSetStep => UNCHANGED <<cellRenders, stateRef, renders, value>>]_vars

\* Values were set and broadcast to a subscriber after the only render.
C12_Witness ==
    /\ lastCall.name = "set"
    /\ cellRenders = 1
    /\ Active # {}
    /\ \E s \in Active : Len(recv[s]) >= 3

\* C13: the cell is made on the first render of the instance, with that
\* render's initialValue; a later render returns the same cell: current value,
\* subscriber Set, what the subscribers received and the pending promises are
\* kept, and the initialValue it passes is ignored.
C13_CellMadeOnce ==
    [][/\ stateRef' <=> cellRenders' >= 1
       /\ IsCall("render") =>
             IF stateRef
             THEN UNCHANGED <<stateRef, currentValue, subscribers, recv, promises>>
             ELSE currentValue' = lastCall'.v /\ subscribers' = <<>>
      ]_vars

\* A second render passed another initialValue than the value held, with a
\* subscriber in the Set.
C13_Witness ==
    /\ lastCall.name = "render"
    /\ cellRenders >= 2
    /\ lastCall.v # currentValue
    /\ Active # {}

\* C16: releasing a subscription that was released before changes nothing:
\* subscriber Set, current value, received values and promises stay.
C16_ReleaseIdempotent ==
    [][(IsCall("release") /\ lastCall'.v.n \notin Active) =>
          UNCHANGED <<stateRef, subscribers, currentValue, recv, promises>>]_vars

\* A released subscription was released again while another one is in the Set.
C16_Witness ==
    /\ lastCall.name = "release"
    /\ lastCall.out = "absent"
    /\ Active # {}

\* The promises that rejected.
Rejected == {q \in PromiseIds : promises[q].state = "rejected"}

\* C17: when the promise a callback returned rejects, nothing is done about
\* it: the value stays, nothing is broadcast, the promise is never applied
\* later, and a later set call stores and broadcasts its value as usual.
C17_RejectionLeavesCell ==
    [][/\ IsCall("reject") =>
             /\ UNCHANGED <<stateRef, currentValue, subscribers, recv>>
             /\ lastCall'.p \in Rejected'
       /\ \A q \in Rejected : promises'[q] = promises[q]
       /\ (IsCall("set") /\ Rejected # {}) =>
             /\ currentValue' = lastCall'.v
             /\ Broadcast(lastCall'.v)
      ]_vars

\* A value was set and broadcast after a promise rejected.
C17_Witness ==
    /\ lastCall.name = "set"
    /\ Rejected # {}
    /\ Active # {}
    /\ currentValue = lastCall.v
    /\ \A s \in Active : Last(recv[s]) = lastCall.v

\* C19: the callback of a set call is called within the call with the value
\* held at that moment: (prev) => prev + 1 computes one more than it, also
\* when it returns a promise; the promise keeps that result, and its
\* resolution stores it, whatever the cell holds by then.
C19_CallbackSeesValueAtCall ==
    [][/\ (IsCall("setFn") /\ lastCall'.v.t = "number") =>
             /\ lastCall'.v = Num(currentValue.n + 1)
             /\ lastCall'.out = "pending" =>
                   promises'[lastCall'.p] =
                       [state |-> "pending", val |-> Num(currentValue.n + 1)]
       /\ \A q \in Pending : promises'[q].val = promises[q].val
       /\ IsCall("resolve") =>
             /\ lastCall'.p \in Pending
             /\ currentValue' = promises[lastCall'.p].val
      ]_vars

\* Two async (prev) => prev + 1 calls were made from 0 before either promise
\* resolved; both resolved and the cell holds 1.
C19_Witness ==
    /\ calls = 5
    /\ cellRenders = 1
    /\ Len(recv) = 0
    /\ promises[1] = [state |-> "resolved", val |-> Num(1)]
    /\ promises[2] = [state |-> "resolved", val |-> Num(1)]
    /\ currentValue = Num(1)

\* C14: a re-render of useSubscription whose deps are, position by position,
\* those of the previous render calls neither setup nor unsubscribe, and
\* schedules no effect: the handle held stays the one set up before, with no
\* unsubscribe called on it.
C14_EqualDepsKeepSubscription ==
    [][(mounted /\ renders' = renders + 1 /\ depsKind # "omitted" /\ deps' = deps) =>
          /\ log' = log
          /\ ~effectPending'
          /\ subscription' = subscription
          /\ subscription' # 0
          /\ At("unsub", subscription') = {}
          /\ \A i \in At("setup", subscription') : log'[i].deps = deps'
      ]_vars

\* Three renders of one instance with the same pair of deps: one setup, no
\* unsubscribe.
C14_Witness ==
    /\ depsKind = "pair"
    /\ Settled
    /\ inst = 1
    /\ renders >= 3
    /\ depChanges = 0
    /\ SetupCount = 1
    /\ UnsubCount = 0

\* C15: useAsyncValues on a promise with a configured initial value, while
\* the deps stay those of the first render: the state is the initial value
\* until the promise resolves and the resolved value from then on; it is
\* written at most once, exactly once when the promise resolved while
\* subscribed, and holds no third value on any render.
C15_InitialThenResolved ==
    (observed = "promise" /\ inst = 1 /\ SetupCount <= 1) =>
        /\ value \in {firstInit, Val(1, 1)}
        /\ Len(Writes) <= 1
        /\ value = IF Writes = <<>> THEN firstInit ELSE Val(1, 1)
        /\ SetupCount = 1 =>
              /\ Len(Writes) = src[1].emitted
              /\ (src[1].done /\ ~src[1].late) => Len(Writes) = 1

\* The promise resolved and the component rendered again with the same deps.
C15_Witness ==
    /\ observed = "promise"
    /\ firstInit = Configured
    /\ Settled
    /\ SetupCount = 1
    /\ renders >= 3
    /\ src[1].done
    /\ value = Val(1, 1)

(***************************************************************************)
(* Properties of useObservableState with subscribers that call the setter, *)
(* under SpecReentrant.  Every step is a call that has returned, with the  *)
(* calls nested in it.                                                     *)
(***************************************************************************)
\* C18: when a set call has returned, with the set calls subscribers made
\* from inside their notifications during its broadcast, the last value
\* delivered to every subscriber in the Set is the value the getter returns.
C18_LastDeliveredIsCurrent ==
    lastCall.name = "set" => \A s \in Active : Last(recv[s]) = currentValue

\* C20: when subscribe has returned, the last value the new subscriber
\* received is the value the getter returns, also when its callback called
\* the setter from inside the replay notification.
C20_ReplaySetterIsDelivered ==
    lastCall.name = "subscribe" => Last(recv[Len(recv)]) = currentValue

\* C21: a set call with a callback whose result is not promise-like, null
\* and undefined included, does not throw; the result is the current value
\* and the last value every subscriber in the Set was sent.
C21_PlainResultApplied ==
    (lastCall.name = "setFn" /\ lastCall.out # "pending") =>
        /\ lastCall.out = "applied"
        /\ currentValue = lastCall.v
        /\ \A s \in Active : Last(recv[s]) = lastCall.v

\* C22: the Set holds exactly the subscriptions made on which unsubscribe()
\* was not called, each once; a subscription on which unsubscribe() was
\* called has received nothing since, whether the call came from outside or
\* from the callback of a subscriber during a broadcast or a replay.
C22_SetIsLiveSubscriptions ==
    /\ Active = DOMAIN recv \ Closed(released)
    /\ Len(subscribers) = Cardinality(Active)
    /\ \A r \in released : r[1] \in DOMAIN recv /\ Len(recv[r[1]]) = r[2]

\* The callback of subscriber 1 called unsubscribe() on subscription 2 during
\* the broadcast of a set call, before the loop reached it: subscriber 2 was
\* not sent the value.
C22_Witness ==
    /\ lastCall.name = "set"
    /\ Len(recv) = 2
    /\ observers[1].kind = "release"
    /\ observers[1].target = 2
    /\ observers[2].kind = "record"
    /\ released = {<<2, 1>>}
    /\ Active = {1}
    /\ recv[1] = <<recv[2][1], lastCall.v>>
    /\ lastCall.v = observers[1].when
    /\ recv[2] # recv[1]
    /\ Len(recv[2]) = 1

(***************************************************************************)
(* Further properties of useAsyncValues (Spec) and useSubscription         *)
(* (SpecSub).                                                              *)
(***************************************************************************)
\* The values written by the sources set up before the current one.
WritesBefore(id) == SelectSeq(log, LAMBDA e : e.op = "write" /\ e.id < id)

\* C23: a change of deps does not reset the value of useAsyncValues: the
\* effect that tears the old source down and subscribes to the new one leaves
\* the useState cell as it is, and so does every render after the first,
\* whatever initialValue it passes; until the new source emits, the cell
\* holds the last value the earlier sources emitted, or the initial value of
\* the first render when they emitted none.
C23_DepsChangeKeepsValue ==
    /\ [][/\ (mounted /\ renders' # renders) => value' = value /\ firstInit' = firstInit
          /\ (mounted /\ subscription' # subscription) => value' = value
         ]_vars
    /\ [](\A s \in Ids :
            (subscription = s /\ s >= 2 /\ src[s].emitted = 0) =>
                value = IF WritesBefore(s) = <<>> THEN firstInit
                        ELSE Val(Last(WritesBefore(s)).id, Last(WritesBefore(s)).k))

\* An observable emitted all its values, the deps changed, the effect ran,
\* and the new source has emitted nothing: the cell holds the old source's
\* last value.
C23_Witness ==
    /\ observed = "observable"
    /\ Settled
    /\ subscription = 2
    /\ src[2].emitted = 0
    /\ ~src[2].done
    /\ src[1].emitted = MaxEmit
    /\ value = Val(1, MaxEmit)
    /\ value # firstInit

\* C24: with deps omitted every render runs the effect: after R renders of
\* the component, mounts counted, setup has been called R times and
\* unsubscribe R - 1 times once the effect of the last render has run; each
\* setup but the last is followed by the unsubscribe of its handle.
C24_OmittedDepsRerunEveryRender ==
    depsKind = "omitted" =>
        /\ Settled => SetupCount = renders /\ UnsubCount = renders - 1
        /\ (Settled /\ inst = 1) => InstSetups = renders /\ InstUnsubs = renders - 1
        /\ (mounted /\ effectPending) =>
              SetupCount = renders - 1 /\ UnsubCount = SetupCount - (IF subscription = 0 THEN 0 ELSE 1)
        /\ ~mounted => SetupCount = renders /\ UnsubCount = renders

\* Three renders of the first instance: three setups, two unsubscribes.
C24_Witness ==
    /\ depsKind = "omitted"
    /\ Settled
    /\ inst = 1
    /\ renders = 3
    /\ SetupCount = 3
    /\ UnsubCount = 2

====
